---------------------------- MODULE Spec2Model ----------------------------
(***************************************************************************)
(* KyrieLock rust_crypto (src/rust_crypto/src/lib.rs): the encrypted file  *)
(* container, the three encrypt/decrypt modes with their worker pool, the  *)
(* header readers and the raw-buffer FFI operations.                       *)
(*                                                                         *)
(* A byte is a record [v, s]: v is its numeric value and s = <<>> for an   *)
(* ordinary byte; a byte of an AES-256-GCM output has v = -1 (its value is *)
(* not known) and s names what it was computed from: ciphertext byte i is  *)
(* <<key, nonce, i, plaintext[i]>> (counter mode), tag byte i is           *)
(* <<key, nonce, i, plaintext, "tag">>.  The AEAD is ideal: open succeeds  *)
(* only on the unmodified output of seal under the same key and nonce.     *)
(*                                                                         *)
(* Sizes are scaled: ChunkUnit bytes of the model stand for 128 MiB, which *)
(* keeps a frame's 32 bytes of nonce, length and tag small beside a chunk. *)
(***************************************************************************)
EXTENDS Integers, Sequences, FiniteSets, TLC

VARIABLES
    track,        \* which family of calls the host makes in this behaviour
    plain,        \* the plaintext (input file of encrypt_file / data of encrypt_data)
    password,     \* password given to the encrypting call
    hint,         \* Option<&str> given to encrypt_file
    encDev,       \* (is_mobile, cpu_cores) given to encrypt_file
    decPassword,  \* password given to the decrypting calls
    decDev,       \* (is_mobile, cpu_cores) given to the decrypting calls
    pc,           \* position of the running call
    file,         \* the container file (output of encrypt_file, input of the readers)
    encRc,        \* return code of encrypt_file (<<>> until it returns)
    rng,          \* number of nonces generate_nonce has produced
    rpos,         \* read position of the BufReader on the input
    chunks,       \* Vec chunks of the current batch
    nonces,       \* Vec nonces of the current batch
    results,      \* per-index result slot of the parallel map
    order,        \* indices of the workers that finished, in finishing order
    shuffled,     \* whether the batch last collected finished out of index order
    outFile,      \* the file at decrypt_file's output path
    rc,           \* return code of decrypt_file (<<>> until it returns)
    decFx,        \* what decrypt_file has done so far: key derived, ciphers built, output created
    tamper,       \* what was done to the container between encrypt and decrypt
    hintCalls,    \* get_hint_from_file: the call with a null and with a non-null buffer
    memCalls,     \* decrypt_file_to_memory: the same two calls
    bufNonces,    \* caller-supplied nonces of the raw-buffer calls
    bufChunks,    \* caller-supplied chunk array of the *_data_parallel calls
    bufCt,        \* ciphertext the host keeps between encrypt_data and decrypt_data
    bufCts,       \* per-chunk ciphertexts kept between the *_data_parallel calls
    encData,      \* encrypt_data: the two calls
    decData,      \* decrypt_data: the two calls
    encPar,       \* encrypt_data_parallel: the two calls
    decPar,       \* decrypt_data_parallel: the two calls
    fault,        \* the argument or file-system failure a call of this run meets, if any
    readMax       \* the most bytes one read call on encrypt_file's input returns

vars == <<track, plain, password, hint, encDev, decPassword, decDev, pc, file,
          encRc, rng, rpos, chunks, nonces, results, order, shuffled, outFile, rc, decFx,
          tamper, hintCalls, memCalls, bufNonces, bufChunks, bufCt, bufCts,
          encData, decData, encPar, decPar, fault, readMax>>

---------------------------------------------------------------------------
(* Bounds of the model *)

\* bytes of the model that stand for 128 MiB
ChunkUnit == 22
\* largest plaintext of the raw-buffer calls
MaxBufPlain == 3

(* Program constants *)
NONCE_SIZE == 12
TAG_SIZE == 16
VERSION == 1
HEADER_SIZE == 14
MAX_HINT_LENGTH == 32

---------------------------------------------------------------------------
(* Bytes *)

Num(b) == [v |-> b, s |-> <<>>]
Bytes(ints) == [i \in 1..Len(ints) |-> Num(ints[i])]
IsOpaque(b) == b.s # <<>>

Min(a, b) == IF a <= b THEN a ELSE b

RECURSIVE Concat(_)
Concat(ss) == IF ss = <<>> THEN <<>> ELSE Head(ss) \o Concat(Tail(ss))

\* b"KYRIE_LOCK"
MAGIC_STRING == Bytes(<<75, 89, 82, 73, 69, 95, 76, 79, 67, 75>>)

\* u32::to_le_bytes
to_le_bytes(n) ==
    Bytes(<<n % 256, (n \div 256) % 256, (n \div 65536) % 256, (n \div 16777216) % 256>>)

\* u32::to_be_bytes
to_be_bytes(n) ==
    Bytes(<<(n \div 16777216) % 256, (n \div 65536) % 256, (n \div 256) % 256, n % 256>>)

\* u32::from_le_bytes; g is the value the four bytes have when one of them is
\* a cipher output byte, whose value the model does not know
from_le_bytes(b, g) ==
    IF \E i \in 1..4 : IsOpaque(b[i]) THEN g
    ELSE b[1].v + 256 * b[2].v + 65536 * b[3].v + 16777216 * b[4].v

\* u32::from_be_bytes
from_be_bytes(b, g) ==
    IF \E i \in 1..4 : IsOpaque(b[i]) THEN g
    ELSE 16777216 * b[1].v + 65536 * b[2].v + 256 * b[3].v + b[4].v

\* values tried for a length field read from cipher output bytes: one that
\* fits whatever remains and one that exceeds any file
OpaqueLens == {0, 2147483647}

---------------------------------------------------------------------------
(* Primitives *)

\* SHA-256 of the password, as an ideal hash: distinct passwords, distinct keys
derive_key(pw) == <<"sha256", pw>>

\* a nonce source that returns the same bytes on every call
generate_nonce_fixed(k) == [i \in 1..NONCE_SIZE |-> Num(0)]

\* the k-th output of the thread RNG (k = 0, 1, ...): 12 bytes, fresh per call
generate_nonce(k) == [i \in 1..NONCE_SIZE |-> IF i = 1 THEN Num(k % 128) ELSE Num(0)]

\* the numeric values of ordinary bytes
Vals(bytes) == [i \in 1..Len(bytes) |-> bytes[i].v]

\* Aes256Gcm::encrypt with empty associated data: ciphertext || 16-byte tag;
\* nonce and plaintext are ordinary bytes
seal(key, nonce, plaintext) ==
    [i \in 1..(Len(plaintext) + TAG_SIZE) |->
        IF i <= Len(plaintext)
        THEN [v |-> -1, s |-> <<key, Vals(nonce), i, plaintext[i].v>>]
        ELSE [v |-> -1, s |-> <<key, Vals(nonce), i, Vals(plaintext), "tag">>]]

OpenErr == [ok |-> FALSE, data |-> <<>>]

\* a decrypt that authenticates under the key the input was sealed with,
\* whatever key it is given
open_any_key(key, nonce, ct) ==
    IF Len(ct) < TAG_SIZE THEN OpenErr
    ELSE LET t == ct[Len(ct) - TAG_SIZE + 1] IN
         IF Len(t.s) # 5 THEN OpenErr
         ELSE IF \E i \in 1..Len(nonce) : IsOpaque(nonce[i]) THEN OpenErr
         ELSE IF t.s[2] = Vals(nonce) /\ ct = seal(t.s[1], nonce, Bytes(t.s[4]))
              THEN [ok |-> TRUE, data |-> Bytes(t.s[4])]
              ELSE OpenErr

\* Aes256Gcm::decrypt: the plaintext, or an error when the input is not the
\* output of seal under this key and nonce (or is shorter than a tag)
open(key, nonce, ct) ==
    IF Len(ct) < TAG_SIZE THEN OpenErr
    ELSE LET t == ct[Len(ct) - TAG_SIZE + 1] IN
         IF Len(t.s) # 5 THEN OpenErr
         ELSE IF \E i \in 1..Len(nonce) : IsOpaque(nonce[i]) THEN OpenErr
         ELSE IF t.s[1] = key /\ t.s[2] = Vals(nonce) /\ ct = seal(key, nonce, Bytes(t.s[4]))
              THEN [ok |-> TRUE, data |-> Bytes(t.s[4])]
              ELSE OpenErr

---------------------------------------------------------------------------
(* Tuner *)

get_chunk_size(is_mobile) == IF is_mobile THEN ChunkUnit ELSE 2 * ChunkUnit

get_parallel_batch_threshold(is_mobile) == IF is_mobile THEN 4 * ChunkUnit ELSE 8 * ChunkUnit

\* f32::round rounds half away from zero
clamp(x, lo, hi) == IF x < lo THEN lo ELSE IF x > hi THEN hi ELSE x
get_parallel_batch_size(cpu_cores, is_mobile) ==
    IF is_mobile THEN clamp((cpu_cores + 1) \div 2, 2, 8)
    ELSE clamp((3 * cpu_cores + 2) \div 4, 4, 16)

---------------------------------------------------------------------------
(* Container codec *)

\* the hint bytes without the take(MAX_HINT_LENGTH)
hint_bytes_whole(h) == IF h.some THEN h.bytes ELSE <<>>

\* hint.map(as_bytes).unwrap_or(&[]).iter().take(MAX_HINT_LENGTH)
hint_bytes(h) ==
    IF h.some THEN SubSeq(h.bytes, 1, Min(Len(h.bytes), MAX_HINT_LENGTH)) ELSE <<>>

\* header writes with the version in big-endian byte order
HeaderOfBigEndian(h) ==
    MAGIC_STRING \o to_be_bytes(VERSION) \o <<Num(Len(hint_bytes(h)))>> \o hint_bytes(h)

\* the four header writes of encrypt_file_internal
HeaderOf(h) ==
    MAGIC_STRING \o to_le_bytes(VERSION) \o <<Num(Len(hint_bytes(h)))>> \o hint_bytes(h)

\* one frame as the write loops emit it
Frame(nonce, encrypted) == nonce \o to_be_bytes(Len(encrypted)) \o encrypted

\* slice::chunks(chunk_size)
Chunks(data, chunk_size) ==
    [k \in 1..((Len(data) + chunk_size - 1) \div chunk_size) |->
        SubSeq(data, (k - 1) * chunk_size + 1, Min(k * chunk_size, Len(data)))]

HeaderErr == [ok |-> FALSE, hint_len |-> 0, hint |-> <<>>, start |-> 0]

\* header reads that, like those of get_hint_from_file_internal, read the
\* version and do not compare it
ReadHeaderAnyVersion(f) ==
    IF Len(f) < Len(MAGIC_STRING) THEN HeaderErr
    ELSE IF SubSeq(f, 1, Len(MAGIC_STRING)) # MAGIC_STRING THEN HeaderErr
    ELSE IF Len(f) < HEADER_SIZE + 1 THEN HeaderErr
    ELSE IF IsOpaque(f[HEADER_SIZE + 1]) THEN HeaderErr
    ELSE LET hint_len == f[HEADER_SIZE + 1].v IN
         IF Len(f) < HEADER_SIZE + 1 + hint_len THEN HeaderErr
         ELSE [ok |-> TRUE, hint_len |-> hint_len,
               hint |-> SubSeq(f, HEADER_SIZE + 2, HEADER_SIZE + 1 + hint_len),
               start |-> HEADER_SIZE + 1 + hint_len]

\* the header reads of decrypt_file_internal and decrypt_file_to_memory_internal:
\* magic, version, hint length, hint; start is encrypted_data_start
ReadHeader(f) ==
    IF Len(f) < Len(MAGIC_STRING) THEN HeaderErr
    ELSE IF SubSeq(f, 1, Len(MAGIC_STRING)) # MAGIC_STRING THEN HeaderErr
    ELSE IF Len(f) < HEADER_SIZE THEN HeaderErr
    ELSE IF from_le_bytes(SubSeq(f, 11, 14), 0) # VERSION THEN HeaderErr
    ELSE IF Len(f) < HEADER_SIZE + 1 THEN HeaderErr
    ELSE IF IsOpaque(f[HEADER_SIZE + 1]) THEN HeaderErr
    ELSE LET hint_len == f[HEADER_SIZE + 1].v IN
         IF Len(f) < HEADER_SIZE + 1 + hint_len THEN HeaderErr
         ELSE [ok |-> TRUE, hint_len |-> hint_len,
               hint |-> SubSeq(f, HEADER_SIZE + 2, HEADER_SIZE + 1 + hint_len),
               start |-> HEADER_SIZE + 1 + hint_len]

---------------------------------------------------------------------------
(* Parallel pipeline: helpers *)

\* the result slots of a parallel map over n items, none finished
PendingResults(n) == [i \in 1..n |-> OpenErr]

\* a collect in the order the workers finished in
CollectAsFinished(res, ord) ==
    IF \E i \in 1..Len(res) : ~res[i].ok THEN [ok |-> FALSE, items |-> <<>>]
    ELSE [ok |-> TRUE, items |-> [i \in 1..Len(res) |-> res[ord[i]].data]]

\* rayon's collect of an indexed parallel iterator into Result<Vec<_>, _>:
\* item i of the Vec is the result of input i, whatever order the workers
\* finished in (ord); an Err when any worker returned one
Collect(res, ord) ==
    IF \E i \in 1..Len(res) : ~res[i].ok THEN [ok |-> FALSE, items |-> <<>>]
    ELSE [ok |-> TRUE, items |-> [i \in 1..Len(res) |-> res[i].data]]

\* the count reader.read(&mut chunk) returns for a buffer of len bytes while
\* that many bytes of the input remain: Read::read may return fewer than asked
\* before the end of the input; it returns what remains when that is less
reader_read(len) == Min(len, readMax)

\* a read loop without the batch_size limit
ReadChunksToEnd(data, pos, chunk_size, batch_size) ==
    Chunks(SubSeq(data, pos + 1, Len(data)), reader_read(chunk_size))

\* the streaming read loop of encrypt_file_internal: up to batch_size reads
\* into a buffer of chunk_size bytes from position pos, each chunk truncated
\* to the count its read returned; a read of 0 bytes ends the batch
ReadChunks(data, pos, chunk_size, batch_size) ==
    LET all == Chunks(SubSeq(data, pos + 1, Len(data)), reader_read(chunk_size))
    IN SubSeq(all, 1, Min(batch_size, Len(all)))

\* the frames the write loops emit for one batch
FramesOf(encrypted_chunks, ns) ==
    Concat([i \in 1..Len(encrypted_chunks) |-> Frame(ns[i], encrypted_chunks[i])])

\* the in-memory frame reader of the decrypt functions: EOF on the nonce or on
\* the length field ends the loop, EOF inside the ciphertext is an error
RECURSIVE ReadFramesMem(_, _, _)
ReadFramesMem(f, pos, g) ==
    IF Len(f) - pos < NONCE_SIZE THEN [err |-> FALSE, frames |-> <<>>]
    ELSE IF Len(f) - pos < NONCE_SIZE + 4 THEN [err |-> FALSE, frames |-> <<>>]
    ELSE LET nonce_bytes == SubSeq(f, pos + 1, pos + NONCE_SIZE)
             chunk_len == from_be_bytes(SubSeq(f, pos + NONCE_SIZE + 1, pos + NONCE_SIZE + 4), g)
         IN IF chunk_len > Len(f) - pos - NONCE_SIZE - 4 THEN [err |-> TRUE, frames |-> <<>>]
            ELSE LET rest == ReadFramesMem(f, pos + NONCE_SIZE + 4 + chunk_len, g)
                 IN [err |-> rest.err,
                     frames |-> <<[nonce |-> nonce_bytes,
                                   chunk |-> SubSeq(f, pos + NONCE_SIZE + 5,
                                                    pos + NONCE_SIZE + 4 + chunk_len)]>>
                                \o rest.frames]

\* the streaming frame reader of decrypt_file_internal: up to n frames from
\* pos; a failed read_exact (nonce, length or ciphertext) ends the batch, and
\* has consumed the input up to its end
RECURSIVE ReadBatch(_, _, _, _)
ReadBatch(f, pos, n, g) ==
    IF n = 0 THEN [frames |-> <<>>, pos |-> pos]
    ELSE IF Len(f) - pos < NONCE_SIZE THEN [frames |-> <<>>, pos |-> Len(f)]
    ELSE IF Len(f) - pos < NONCE_SIZE + 4 THEN [frames |-> <<>>, pos |-> Len(f)]
    ELSE LET nonce_bytes == SubSeq(f, pos + 1, pos + NONCE_SIZE)
             chunk_len == from_be_bytes(SubSeq(f, pos + NONCE_SIZE + 1, pos + NONCE_SIZE + 4), g)
         IN IF chunk_len > Len(f) - pos - NONCE_SIZE - 4 THEN [frames |-> <<>>, pos |-> Len(f)]
            ELSE LET rest == ReadBatch(f, pos + NONCE_SIZE + 4 + chunk_len, n - 1, g)
                 IN [frames |-> <<[nonce |-> nonce_bytes,
                                   chunk |-> SubSeq(f, pos + NONCE_SIZE + 5,
                                                    pos + NONCE_SIZE + 4 + chunk_len)]>>
                                \o rest.frames,
                     pos |-> rest.pos]

---------------------------------------------------------------------------
(* Inputs the host may pass *)

Passwords == {<<112>>, <<112, 119>>}
CoreCounts == {2, 8}
Devs == [is_mobile : BOOLEAN, cpu_cores : CoreCounts]

NoHint == [some |-> FALSE, bytes |-> <<>>]
HintOf(n) == [some |-> TRUE, bytes |-> [i \in 1..n |-> Num(97 + (i % 26))]]
Hints == {NoHint, HintOf(0), HintOf(2), HintOf(MAX_HINT_LENGTH), HintOf(MAX_HINT_LENGTH + 1)}

\* a plaintext of n bytes, every byte different from its neighbours
PlainOf(n) == [i \in 1..n |-> Num(i % 256)]

\* plaintext sizes: empty, one byte, and each side of every mode boundary of
\* both device classes, and one of six mobile chunks
PlainSizes ==
    {0, 1} \cup UNION {{get_chunk_size(m), get_chunk_size(m) + 1,
                        get_parallel_batch_threshold(m),
                        get_parallel_batch_threshold(m) + 1} : m \in BOOLEAN}
           \cup {6 * get_chunk_size(TRUE)}

CallNone == [rc |-> <<>>, len |-> <<>>, buf |-> <<>>]
TwoCalls == [probe |-> CallNone, fill |-> CallNone]
NoFx == [key |-> FALSE, ciphers |-> 0, created |-> FALSE]

\* what the output path of decrypt_file holds before the call
OldOutput == Bytes(<<111, 108, 100>>)

inputVars == <<track, plain, password, hint, encDev, fault, readMax>>
decArgs == <<decPassword, decDev>>
pipeVars == <<rpos, chunks, nonces, results, order, shuffled>>
decVars == <<outFile, rc, decFx>>
ffiVars == <<hintCalls, memCalls>>
bufVars == <<bufNonces, bufChunks, bufCt, bufCts, encData, decData, encPar, decPar>>

Finished(ord) == {ord[k] : k \in 1..Len(ord)}
Ascending(ord) == \A k \in 1..Len(ord) : ord[k] = k

---------------------------------------------------------------------------
(* encrypt_file *)

EncKey == derive_key(password)
EncChunkSize == get_chunk_size(encDev.is_mobile)
EncThreshold == get_parallel_batch_threshold(encDev.is_mobile)
EncBatchSize == get_parallel_batch_size(encDev.cpu_cores, encDev.is_mobile)

\* a mode choice that compares the size with < chunk_size
EncStartBelowChunkSize ==
    /\ pc = "enc_start"
    /\ IF fault \in {"enc_input_path", "enc_output_path"}
       THEN /\ encRc' = <<-1>>
            /\ pc' = "enc_failed"
            /\ file' = file
       ELSE IF fault = "enc_open"
       THEN /\ encRc' = <<-2>>
            /\ pc' = "enc_failed"
            /\ file' = file
       ELSE /\ file' = HeaderOf(hint)
            /\ pc' = IF Len(plain) < EncChunkSize THEN "enc_single"
                     ELSE IF Len(plain) <= EncThreshold THEN "enc_readall"
                     ELSE "enc_batch"
            /\ encRc' = encRc
    /\ UNCHANGED <<inputVars, decArgs, rng, pipeVars, decVars, tamper, ffiVars, bufVars>>

\* encrypt_file up to the mode choice: the path arguments (-1 when one is not
\* UTF-8), then in encrypt_file_internal tuner, open (-2 when it fails),
\* create, header, key
EncStart ==
    /\ pc = "enc_start"
    /\ IF fault \in {"enc_input_path", "enc_output_path"}
       THEN /\ encRc' = <<-1>>
            /\ pc' = "enc_failed"
            /\ file' = file
       ELSE IF fault = "enc_open"
       THEN /\ encRc' = <<-2>>
            /\ pc' = "enc_failed"
            /\ file' = file
       ELSE /\ file' = HeaderOf(hint)
            /\ pc' = IF Len(plain) <= EncChunkSize THEN "enc_single"
                     ELSE IF Len(plain) <= EncThreshold THEN "enc_readall"
                     ELSE "enc_batch"
            /\ encRc' = encRc
    /\ UNCHANGED <<inputVars, decArgs, rng, pipeVars, decVars, tamper, ffiVars, bufVars>>

\* the single-shot branch: one nonce, the whole input sealed, no length prefix
EncSingle ==
    /\ pc = "enc_single"
    /\ LET nonce_bytes == generate_nonce(rng)
       IN file' = file \o nonce_bytes \o seal(EncKey, nonce_bytes, plain)
    /\ rng' = rng + 1
    /\ rpos' = Len(plain)
    /\ pc' = "enc_flush"
    /\ UNCHANGED <<inputVars, decArgs, encRc, chunks, nonces, results, order, shuffled,
                   decVars, tamper, ffiVars, bufVars>>

\* the in-memory parallel branch: read_to_end, all_data.chunks, one nonce per chunk
EncReadAll ==
    /\ pc = "enc_readall"
    /\ chunks' = Chunks(plain, EncChunkSize)
    /\ nonces' = [k \in 1..Len(chunks') |-> generate_nonce(rng + k - 1)]
    /\ rng' = rng + Len(chunks')
    /\ rpos' = Len(plain)
    /\ results' = PendingResults(Len(chunks'))
    /\ order' = <<>>
    /\ shuffled' = FALSE
    /\ pc' = "enc_work"
    /\ UNCHANGED <<inputVars, decArgs, file, encRc, decVars, tamper, ffiVars, bufVars>>

\* one pass of the streaming loop's read phase; no chunk read ends the loop
EncReadBatch ==
    /\ pc = "enc_batch"
    /\ LET got == ReadChunks(plain, rpos, EncChunkSize, EncBatchSize)
       IN /\ chunks' = got
          /\ nonces' = [k \in 1..Len(got) |-> generate_nonce(rng + k - 1)]
          /\ rng' = rng + Len(got)
          /\ rpos' = rpos + Len(Concat(got))
          /\ results' = PendingResults(Len(got))
          /\ order' = <<>>
          /\ shuffled' = FALSE
          /\ pc' = IF got = <<>> THEN "enc_flush" ELSE "enc_work"
    /\ UNCHANGED <<inputVars, decArgs, file, encRc, decVars, tamper, ffiVars, bufVars>>

\* one worker of the parallel map: its own cipher from the shared key, one seal
EncWorker(i) ==
    /\ pc = "enc_work"
    /\ i \in 1..Len(chunks)
    /\ i \notin Finished(order)
    /\ results' = [results EXCEPT ![i] =
                      [ok |-> TRUE, data |-> seal(EncKey, nonces[i], chunks[i])]]
    /\ order' = Append(order, i)
    /\ UNCHANGED <<inputVars, decArgs, pc, file, encRc, rng, rpos, chunks, nonces,
                   shuffled, decVars, tamper, ffiVars, bufVars>>

\* the join, the collect and the frame write loop of a batch
EncCollectWrite ==
    /\ pc = "enc_work"
    /\ Finished(order) = 1..Len(chunks)
    /\ LET encrypted_chunks == Collect(results, order)
       IN IF encrypted_chunks.ok
          THEN /\ file' = file \o FramesOf(encrypted_chunks.items, nonces)
               /\ pc' = IF Len(plain) <= EncThreshold THEN "enc_flush" ELSE "enc_batch"
               /\ encRc' = encRc
          ELSE /\ file' = file
               /\ pc' = "tamper"
               /\ encRc' = <<-2>>
    /\ chunks' = <<>>
    /\ nonces' = <<>>
    /\ results' = <<>>
    /\ order' = <<>>
    /\ shuffled' = ~Ascending(order)
    /\ UNCHANGED <<inputVars, decArgs, rng, rpos, decVars, tamper, ffiVars, bufVars>>

\* output_file.flush() and the return of encrypt_file
EncFlush ==
    /\ pc = "enc_flush"
    /\ encRc' = <<0>>
    /\ rpos' = 0
    /\ chunks' = <<>>
    /\ nonces' = <<>>
    /\ results' = <<>>
    /\ order' = <<>>
    /\ shuffled' = FALSE
    /\ pc' = "tamper"
    /\ UNCHANGED <<inputVars, decArgs, file, rng, decVars, tamper, ffiVars, bufVars>>

---------------------------------------------------------------------------
(* The container between the calls *)

NoTamper ==
    /\ pc = "tamper"
    /\ pc' = "hint_probe"
    /\ UNCHANGED <<inputVars, decArgs, file, encRc, rng, pipeVars, decVars, tamper,
                   ffiVars, bufVars>>

\* the values a byte is changed to: another number, or any number for a
\* cipher output byte
TamperValues(b) == IF IsOpaque(b) THEN {Num(0)} ELSE {Num(0), Num(1), Num(b.v + 1)} \ {b}

TamperByte(p, b) ==
    /\ pc = "tamper"
    /\ track = "tamper"
    /\ p \in 1..Len(file)
    /\ b \in TamperValues(file[p])
    /\ file' = [file EXCEPT ![p] = b]
    /\ tamper' = [kind |-> "byte", pos |-> p]
    /\ pc' = "hint_probe"
    /\ UNCHANGED <<inputVars, decArgs, encRc, rng, pipeVars, decVars, ffiVars, bufVars>>

Truncate(n) ==
    /\ pc = "tamper"
    /\ track = "tamper"
    /\ n \in 0..(Len(file) - 1)
    /\ file' = SubSeq(file, 1, n)
    /\ tamper' = [kind |-> "cut", pos |-> n]
    /\ pc' = "hint_probe"
    /\ UNCHANGED <<inputVars, decArgs, encRc, rng, pipeVars, decVars, ffiVars, bufVars>>

\* the frames of a container whose body is framed, and the container of the
\* same header with other frames
FramesIn(f) == ReadFramesMem(f, ReadHeader(f).start, 0).frames
WithFrames(f, frames) ==
    SubSeq(f, 1, ReadHeader(f).start)
        \o Concat([i \in 1..Len(frames) |-> Frame(frames[i].nonce, frames[i].chunk)])

\* frame k of a multi-chunk container written twice, the copy after it
DuplicateFrame(k) ==
    /\ pc = "tamper"
    /\ track = "tamper"
    /\ Len(plain) > EncChunkSize
    /\ k \in 1..Len(FramesIn(file))
    /\ LET frames == FramesIn(file)
       IN file' = WithFrames(file, SubSeq(frames, 1, k) \o SubSeq(frames, k, Len(frames)))
    /\ tamper' = [kind |-> "dup", pos |-> k]
    /\ pc' = "hint_probe"
    /\ UNCHANGED <<inputVars, decArgs, encRc, rng, pipeVars, decVars, ffiVars, bufVars>>

\* frames i and j of a multi-chunk container in each other's place
SwapFrames(i, j) ==
    /\ pc = "tamper"
    /\ track = "tamper"
    /\ Len(plain) > EncChunkSize
    /\ i \in 1..Len(FramesIn(file))
    /\ j \in (i + 1)..Len(FramesIn(file))
    /\ LET frames == FramesIn(file)
       IN file' = WithFrames(file, [frames EXCEPT ![i] = frames[j], ![j] = frames[i]])
    /\ tamper' = [kind |-> "swap", pos |-> i]
    /\ pc' = "hint_probe"
    /\ UNCHANGED <<inputVars, decArgs, encRc, rng, pipeVars, decVars, ffiVars, bufVars>>

---------------------------------------------------------------------------
(* get_hint_from_file *)

\* get_hint_from_file_internal: reads on the bare File, so read is the offset
\* the reads have reached; the version is read and not compared; no key
get_hint_from_file_internal(f) ==
    IF Len(f) < Len(MAGIC_STRING) THEN [ok |-> FALSE, hint |-> <<>>, read |-> Len(f)]
    ELSE IF SubSeq(f, 1, Len(MAGIC_STRING)) # MAGIC_STRING
         THEN [ok |-> FALSE, hint |-> <<>>, read |-> Len(MAGIC_STRING)]
    ELSE IF Len(f) < HEADER_SIZE + 1 THEN [ok |-> FALSE, hint |-> <<>>, read |-> Len(f)]
    ELSE IF IsOpaque(f[HEADER_SIZE + 1]) THEN [ok |-> FALSE, hint |-> <<>>, read |-> Len(f)]
    ELSE LET hint_len == f[HEADER_SIZE + 1].v IN
         IF Len(f) < HEADER_SIZE + 1 + hint_len
         THEN [ok |-> FALSE, hint |-> <<>>, read |-> Len(f)]
         ELSE [ok |-> TRUE,
               hint |-> SubSeq(f, HEADER_SIZE + 2, HEADER_SIZE + 1 + hint_len),
               read |-> HEADER_SIZE + 1 + hint_len]

\* the FFI wrapper: length cell, then the copy when the buffer is not null
get_hint_from_file(path_utf8, f, hint_ptr_null) ==
    LET r == get_hint_from_file_internal(f)
    IN IF ~path_utf8
       THEN [rc |-> <<-1>>, len |-> <<>>, buf |-> <<>>, read |-> 0, key |-> FALSE]
       ELSE IF r.ok
       THEN [rc |-> <<0>>, len |-> <<Len(r.hint)>>,
             buf |-> IF hint_ptr_null THEN <<>> ELSE <<r.hint>>,
             read |-> r.read, key |-> FALSE]
       ELSE [rc |-> <<-2>>, len |-> <<>>, buf |-> <<>>, read |-> r.read, key |-> FALSE]

GetHintProbe ==
    /\ pc = "hint_probe"
    /\ hintCalls' = [hintCalls EXCEPT !.probe = get_hint_from_file(fault # "hint_path", file, TRUE)]
    /\ pc' = "hint_fill"
    /\ UNCHANGED <<inputVars, decArgs, file, encRc, rng, pipeVars, decVars, tamper,
                   memCalls, bufVars>>

GetHintFill ==
    /\ pc = "hint_fill"
    /\ hintCalls' = [hintCalls EXCEPT !.fill = get_hint_from_file(fault # "hint_path", file, FALSE)]
    /\ pc' = "choose"
    /\ UNCHANGED <<inputVars, decArgs, file, encRc, rng, pipeVars, decVars, tamper,
                   memCalls, bufVars>>

\* the host picks the arguments of the decrypting calls
ChooseDecryptArgs(pw, dev) ==
    /\ pc = "choose"
    /\ track = "tamper" => (pw = password /\ dev = encDev)
    /\ decPassword' = pw
    /\ decDev' = dev
    /\ pc' = "mem_probe"
    /\ UNCHANGED <<inputVars, file, encRc, rng, pipeVars, decVars, tamper, ffiVars, bufVars>>

---------------------------------------------------------------------------
(* decrypt_file_to_memory *)

MemErr == [ok |-> FALSE, data |-> <<>>]

\* the parallel map of the decrypt functions, as collected
OpenAll(key, frames) ==
    Collect([i \in 1..Len(frames) |-> open(key, frames[i].nonce, frames[i].chunk)],
            [i \in 1..Len(frames) |-> i])

decrypt_file_to_memory_internal(f, pw, is_mobile, g) ==
    LET hdr == ReadHeader(f)
        chunk_size == get_chunk_size(is_mobile)
        encrypted_size == Len(f) - hdr.start
        key == derive_key(pw)
    IN IF ~hdr.ok THEN MemErr
       ELSE IF encrypted_size < NONCE_SIZE THEN MemErr
       ELSE IF encrypted_size - NONCE_SIZE <= chunk_size + TAG_SIZE
            THEN open(key, SubSeq(f, hdr.start + 1, hdr.start + NONCE_SIZE),
                      SubSeq(f, hdr.start + NONCE_SIZE + 1, Len(f)))
       ELSE LET read == ReadFramesMem(f, hdr.start, g)
                decrypted_chunks == OpenAll(key, read.frames)
            IN IF read.err THEN MemErr
               ELSE IF ~decrypted_chunks.ok THEN MemErr
               ELSE [ok |-> TRUE, data |-> Concat(decrypted_chunks.items)]

\* a wrapper that sets the length cell only together with the copy
decrypt_file_to_memory_len_with_copy(path_utf8, f, pw, output_ptr_null, is_mobile, g) ==
    LET r == decrypt_file_to_memory_internal(f, pw, is_mobile, g)
    IN IF ~path_utf8 THEN [rc |-> <<-1>>, len |-> <<>>, buf |-> <<>>]
       ELSE IF r.ok
       THEN [rc |-> <<0>>, len |-> IF output_ptr_null THEN <<>> ELSE <<Len(r.data)>>,
             buf |-> IF output_ptr_null THEN <<>> ELSE <<r.data>>]
       ELSE [rc |-> <<-2>>, len |-> <<>>, buf |-> <<>>]

\* the FFI wrapper
decrypt_file_to_memory(path_utf8, f, pw, output_ptr_null, is_mobile, g) ==
    LET r == decrypt_file_to_memory_internal(f, pw, is_mobile, g)
    IN IF ~path_utf8 THEN [rc |-> <<-1>>, len |-> <<>>, buf |-> <<>>]
       ELSE IF r.ok
       THEN [rc |-> <<0>>, len |-> <<Len(r.data)>>,
             buf |-> IF output_ptr_null THEN <<>> ELSE <<r.data>>]
       ELSE [rc |-> <<-2>>, len |-> <<>>, buf |-> <<>>]

MemProbe ==
    /\ pc = "mem_probe"
    /\ \E g \in OpaqueLens :
          memCalls' = [memCalls EXCEPT !.probe =
                          decrypt_file_to_memory(fault # "mem_path", file, decPassword, TRUE, decDev.is_mobile, g)]
    /\ pc' = "mem_fill"
    /\ UNCHANGED <<inputVars, decArgs, file, encRc, rng, pipeVars, decVars, tamper,
                   hintCalls, bufVars>>

MemFill ==
    /\ pc = "mem_fill"
    /\ \E g \in OpaqueLens :
          memCalls' = [memCalls EXCEPT !.fill =
                          decrypt_file_to_memory(fault # "mem_path", file, decPassword, FALSE, decDev.is_mobile, g)]
    /\ pc' = "dec_header"
    /\ UNCHANGED <<inputVars, decArgs, file, encRc, rng, pipeVars, decVars, tamper,
                   hintCalls, bufVars>>

---------------------------------------------------------------------------
(* decrypt_file *)

DecKey == derive_key(decPassword)
DecChunkSize == get_chunk_size(decDev.is_mobile)
DecThreshold == get_parallel_batch_threshold(decDev.is_mobile)
DecBatchSize == get_parallel_batch_size(decDev.cpu_cores, decDev.is_mobile)
DecStart == ReadHeader(file).start
DecEncryptedSize == Len(file) - DecStart

\* an error return that maps Err(_) to -1
DecFailInvalidArgument ==
    /\ rc' = <<-1>>
    /\ pc' = "done"
    /\ rpos' = 0
    /\ chunks' = <<>>
    /\ nonces' = <<>>
    /\ results' = <<>>
    /\ order' = <<>>
    /\ shuffled' = FALSE

\* the error return of decrypt_file: Err(_) => -2, the locals dropped
DecFail ==
    /\ rc' = <<-2>>
    /\ pc' = "done"
    /\ rpos' = 0
    /\ chunks' = <<>>
    /\ nonces' = <<>>
    /\ results' = <<>>
    /\ order' = <<>>
    /\ shuffled' = FALSE

\* the return of decrypt_file for a path argument that is not UTF-8
DecInvalidPath ==
    /\ rc' = <<-1>>
    /\ pc' = "done"
    /\ UNCHANGED pipeVars

\* the path arguments, then tuner, open, the header reads and the body size
DecHeader ==
    /\ pc = "dec_header"
    /\ IF fault \in {"dec_input_path", "dec_output_path"}
       THEN DecInvalidPath
       ELSE IF ReadHeader(file).ok
       THEN /\ pc' = "dec_key"
            /\ UNCHANGED <<rc, pipeVars>>
       ELSE DecFail
    /\ UNCHANGED <<inputVars, decArgs, file, encRc, rng, outFile, decFx, tamper, ffiVars, bufVars>>

\* derive_key and the cipher of the calling thread
DecDeriveKey ==
    /\ pc = "dec_key"
    /\ decFx' = [decFx EXCEPT !.key = TRUE, !.ciphers = 1]
    /\ pc' = "dec_create"
    /\ UNCHANGED <<inputVars, decArgs, file, encRc, rng, pipeVars, outFile, rc, tamper,
                   ffiVars, bufVars>>

\* File::create(output_path): the file exists and is empty from here on, or
\* the call fails and the path is left alone
DecCreate ==
    /\ pc = "dec_create"
    /\ IF fault = "dec_create"
       THEN DecFail /\ UNCHANGED <<outFile, decFx>>
       ELSE /\ outFile' = <<>>
            /\ decFx' = [decFx EXCEPT !.created = TRUE]
            /\ pc' = "dec_detect"
            /\ UNCHANGED <<rc, pipeVars>>
    /\ UNCHANGED <<inputVars, decArgs, file, encRc, rng, tamper, ffiVars, bufVars>>

\* the comparison without the tag: remaining <= chunk_size
is_single_chunk_without_tag(encrypted_size, chunk_size) ==
    encrypted_size - NONCE_SIZE <= chunk_size

\* the comparison with < in place of <=
is_single_chunk_strict(encrypted_size, chunk_size) ==
    encrypted_size - NONCE_SIZE < chunk_size + TAG_SIZE

\* is_single_chunk: 12 bytes read, the rest compared with chunk_size + TAG_SIZE,
\* the reader rewound to the start of the body
is_single_chunk(encrypted_size, chunk_size) ==
    encrypted_size - NONCE_SIZE <= chunk_size + TAG_SIZE

DecDetect ==
    /\ pc = "dec_detect"
    /\ IF DecEncryptedSize < NONCE_SIZE
       THEN DecFail
       ELSE /\ pc' = IF is_single_chunk(DecEncryptedSize, DecChunkSize) THEN "dec_single"
                     ELSE IF DecEncryptedSize <= DecThreshold THEN "dec_readall"
                     ELSE "dec_batch"
            /\ rpos' = DecStart
            /\ UNCHANGED <<rc, chunks, nonces, results, order, shuffled>>
    /\ UNCHANGED <<inputVars, decArgs, file, encRc, rng, outFile, decFx, tamper, ffiVars, bufVars>>

\* the single-shot branch: nonce, read_to_end, one open, one write
DecSingle ==
    /\ pc = "dec_single"
    /\ LET decrypted == open(DecKey, SubSeq(file, rpos + 1, rpos + NONCE_SIZE),
                             SubSeq(file, rpos + NONCE_SIZE + 1, Len(file)))
       IN IF decrypted.ok
          THEN /\ outFile' = outFile \o decrypted.data
               /\ pc' = "dec_flush"
               /\ rpos' = Len(file)
               /\ UNCHANGED <<rc, chunks, nonces, results, order, shuffled>>
          ELSE DecFail /\ UNCHANGED outFile
    /\ UNCHANGED <<inputVars, decArgs, file, encRc, rng, decFx, tamper, ffiVars, bufVars>>

\* the frame reader of the in-memory parallel branch
DecReadAll ==
    /\ pc = "dec_readall"
    /\ \E g \in OpaqueLens :
       LET read == ReadFramesMem(file, rpos, g)
       IN IF read.err
          THEN DecFail
          ELSE /\ chunks' = [i \in 1..Len(read.frames) |-> read.frames[i].chunk]
               /\ nonces' = [i \in 1..Len(read.frames) |-> read.frames[i].nonce]
               /\ results' = PendingResults(Len(read.frames))
               /\ order' = <<>>
               /\ shuffled' = FALSE
               /\ rpos' = Len(file)
               /\ pc' = "dec_work"
               /\ rc' = rc
    /\ UNCHANGED <<inputVars, decArgs, file, encRc, rng, outFile, decFx, tamper, ffiVars, bufVars>>

\* a pass that takes a read of no frame as an error
DecReadBatchEmptyIsError ==
    /\ pc = "dec_batch"
    /\ \E g \in OpaqueLens :
       LET read == ReadBatch(file, rpos, DecBatchSize, g)
       IN IF read.frames = <<>>
          THEN DecFail
          ELSE /\ chunks' = [i \in 1..Len(read.frames) |-> read.frames[i].chunk]
               /\ nonces' = [i \in 1..Len(read.frames) |-> read.frames[i].nonce]
               /\ results' = PendingResults(Len(read.frames))
               /\ order' = <<>>
               /\ shuffled' = FALSE
               /\ rpos' = read.pos
               /\ pc' = "dec_work"
               /\ rc' = rc
    /\ UNCHANGED <<inputVars, decArgs, file, encRc, rng, outFile, decFx, tamper, ffiVars, bufVars>>

\* one pass of the streaming loop's read phase; no frame read ends the loop
DecReadBatch ==
    /\ pc = "dec_batch"
    /\ \E g \in OpaqueLens :
       LET read == ReadBatch(file, rpos, DecBatchSize, g)
       IN /\ chunks' = [i \in 1..Len(read.frames) |-> read.frames[i].chunk]
          /\ nonces' = [i \in 1..Len(read.frames) |-> read.frames[i].nonce]
          /\ results' = PendingResults(Len(read.frames))
          /\ order' = <<>>
          /\ shuffled' = FALSE
          /\ rpos' = read.pos
          /\ pc' = IF read.frames = <<>> THEN "dec_flush" ELSE "dec_work"
    /\ UNCHANGED <<inputVars, decArgs, file, encRc, rng, decVars, tamper, ffiVars, bufVars>>

\* one worker of the parallel map: its own cipher from the shared key, one open
DecWorker(i) ==
    /\ pc = "dec_work"
    /\ i \in 1..Len(chunks)
    /\ i \notin Finished(order)
    /\ results' = [results EXCEPT ![i] = open(DecKey, nonces[i], chunks[i])]
    /\ order' = Append(order, i)
    /\ decFx' = [decFx EXCEPT !.ciphers = @ + 1]
    /\ UNCHANGED <<inputVars, decArgs, pc, file, encRc, rng, rpos, chunks, nonces,
                   shuffled, outFile, rc, tamper, ffiVars, bufVars>>

\* a write loop over the workers' results that stops at the first error
DecCollectWriteUntilError ==
    /\ pc = "dec_work"
    /\ Finished(order) = 1..Len(chunks)
    /\ LET decrypted_chunks == Collect(results, order)
           good == {i \in 1..Len(results) : \A j \in 1..i : results[j].ok}
       IN IF decrypted_chunks.ok
          THEN /\ outFile' = outFile \o Concat(decrypted_chunks.items)
               /\ pc' = IF DecEncryptedSize <= DecThreshold THEN "dec_flush" ELSE "dec_batch"
               /\ chunks' = <<>>
               /\ nonces' = <<>>
               /\ results' = <<>>
               /\ order' = <<>>
               /\ shuffled' = ~Ascending(order)
               /\ UNCHANGED <<rc, rpos>>
          ELSE /\ DecFail
               /\ outFile' = outFile \o Concat([i \in 1..Cardinality(good) |-> results[i].data])
    /\ UNCHANGED <<inputVars, decArgs, file, encRc, rng, decFx, tamper, ffiVars, bufVars>>

\* the join, the collect and the write loop of a batch
DecCollectWrite ==
    /\ pc = "dec_work"
    /\ Finished(order) = 1..Len(chunks)
    /\ LET decrypted_chunks == Collect(results, order)
       IN IF decrypted_chunks.ok
          THEN /\ outFile' = outFile \o Concat(decrypted_chunks.items)
               /\ pc' = IF DecEncryptedSize <= DecThreshold THEN "dec_flush" ELSE "dec_batch"
               /\ chunks' = <<>>
               /\ nonces' = <<>>
               /\ results' = <<>>
               /\ order' = <<>>
               /\ shuffled' = ~Ascending(order)
               /\ UNCHANGED <<rc, rpos>>
          ELSE DecFail /\ UNCHANGED outFile
    /\ UNCHANGED <<inputVars, decArgs, file, encRc, rng, decFx, tamper, ffiVars, bufVars>>

\* output_file.flush() and the return of decrypt_file
DecFlush ==
    /\ pc = "dec_flush"
    /\ rc' = <<0>>
    /\ rpos' = 0
    /\ chunks' = <<>>
    /\ nonces' = <<>>
    /\ results' = <<>>
    /\ order' = <<>>
    /\ shuffled' = FALSE
    /\ pc' = "done"
    /\ UNCHANGED <<inputVars, decArgs, file, encRc, rng, outFile, decFx, tamper, ffiVars, bufVars>>

---------------------------------------------------------------------------
(* Raw-buffer operations *)

\* encrypt_data: key, cipher, one seal; the length cell, then the copy when
\* the output pointer is not null
encrypt_data(data, pw, nonce_bytes, output_ptr_null) ==
    LET encrypted == seal(derive_key(pw), nonce_bytes, data)
    IN [rc |-> <<0>>, len |-> <<Len(encrypted)>>,
        buf |-> IF output_ptr_null THEN <<>> ELSE <<encrypted>>]

\* a decrypt_data that reports the length of its input
decrypt_data_input_len(encrypted, pw, nonce_bytes, output_ptr_null) ==
    LET decrypted == open(derive_key(pw), nonce_bytes, encrypted)
    IN IF decrypted.ok
       THEN [rc |-> <<0>>, len |-> <<Len(encrypted)>>,
             buf |-> IF output_ptr_null THEN <<>> ELSE <<decrypted.data>>]
       ELSE [rc |-> <<-2>>, len |-> <<>>, buf |-> <<>>]

\* decrypt_data: -2 and nothing written when the open fails
decrypt_data(encrypted, pw, nonce_bytes, output_ptr_null) ==
    LET decrypted == open(derive_key(pw), nonce_bytes, encrypted)
    IN IF decrypted.ok
       THEN [rc |-> <<0>>, len |-> <<Len(decrypted.data)>>,
             buf |-> IF output_ptr_null THEN <<>> ELSE <<decrypted.data>>]
       ELSE [rc |-> <<-2>>, len |-> <<>>, buf |-> <<>>]

\* the first nonce of the array, whatever the chunk
NonceAtStart(ns, i) == SubSeq(ns, 1, NONCE_SIZE)

\* nonces[nonce_offset..nonce_offset + NONCE_SIZE] of chunk i (from 1)
NonceAt(ns, i) == SubSeq(ns, (i - 1) * NONCE_SIZE + 1, i * NONCE_SIZE)

\* a match that sets the length cell and makes the copy of every chunk whose
\* worker succeeded, also when another worker failed
ParallelReturnEachOk(collected, outputs_null) ==
    IF collected.ok
    THEN [rc |-> <<0>>,
          len |-> [i \in 1..Len(collected.items) |-> <<Len(collected.items[i])>>],
          buf |-> [i \in 1..Len(collected.items) |->
                      IF outputs_null THEN <<>> ELSE <<collected.items[i]>>]]
    ELSE [rc |-> <<-2>>,
          len |-> [i \in 1..Len(results) |->
                      IF results[i].ok THEN <<Len(results[i].data)>> ELSE <<>>],
          buf |-> [i \in 1..Len(results) |->
                      IF results[i].ok /\ ~outputs_null THEN <<results[i].data>> ELSE <<>>]]

\* the match on the collected results of the *_data_parallel functions: per
\* chunk the length cell, then the copy when that output pointer is not null
ParallelReturn(collected, outputs_null) ==
    IF collected.ok
    THEN [rc |-> <<0>>,
          len |-> [i \in 1..Len(collected.items) |-> <<Len(collected.items[i])>>],
          buf |-> [i \in 1..Len(collected.items) |->
                      IF outputs_null THEN <<>> ELSE <<collected.items[i]>>]]
    ELSE [rc |-> <<-2>>, len |-> [i \in 1..Len(results) |-> <<>>],
          buf |-> [i \in 1..Len(results) |-> <<>>]]

EncryptDataProbe ==
    /\ pc = "ed_probe"
    /\ encData' = [encData EXCEPT !.probe = encrypt_data(plain, password, NonceAt(bufNonces, 1), TRUE)]
    /\ pc' = "ed_fill"
    /\ UNCHANGED <<inputVars, decArgs, file, encRc, rng, pipeVars, decVars, tamper, ffiVars,
                   bufNonces, bufChunks, bufCt, bufCts, decData, encPar, decPar>>

EncryptDataFill ==
    /\ pc = "ed_fill"
    /\ encData' = [encData EXCEPT !.fill = encrypt_data(plain, password, NonceAt(bufNonces, 1), FALSE)]
    /\ bufCt' = encData'.fill.buf[1]
    /\ pc' = "buf_choose"
    /\ UNCHANGED <<inputVars, decArgs, file, encRc, rng, pipeVars, decVars, tamper, ffiVars,
                   bufNonces, bufChunks, bufCts, decData, encPar, decPar>>

\* the host picks the password of the decrypting buffer calls, and the chunk
\* (0: none) whose ciphertext it will pass to decrypt_data_parallel changed
BufChoose(pw, bad) ==
    /\ pc = "buf_choose"
    /\ bad \in 0..Len(bufChunks)
    /\ decPassword' = pw
    /\ tamper' = IF bad = 0 THEN tamper ELSE [kind |-> "chunk", pos |-> bad]
    /\ pc' = "dd_probe"
    /\ UNCHANGED <<inputVars, decDev, file, encRc, rng, pipeVars, decVars, ffiVars, bufVars>>

DecryptDataProbe ==
    /\ pc = "dd_probe"
    /\ decData' = [decData EXCEPT !.probe = decrypt_data(bufCt, decPassword, NonceAt(bufNonces, 1), TRUE)]
    /\ pc' = "dd_fill"
    /\ UNCHANGED <<inputVars, decArgs, file, encRc, rng, pipeVars, decVars, tamper, ffiVars,
                   bufNonces, bufChunks, bufCt, bufCts, encData, encPar, decPar>>

DecryptDataFill ==
    /\ pc = "dd_fill"
    /\ decData' = [decData EXCEPT !.fill = decrypt_data(bufCt, decPassword, NonceAt(bufNonces, 1), FALSE)]
    /\ pc' = "edp_probe"
    /\ UNCHANGED <<inputVars, decArgs, file, encRc, rng, pipeVars, decVars, tamper, ffiVars,
                   bufNonces, bufChunks, bufCt, bufCts, encData, encPar, decPar>>

\* entry of encrypt_data_parallel / decrypt_data_parallel: key, the chunk
\* slices and the parallel map dispatched over them
ParallelBegin(from, to, input) ==
    /\ pc = from
    /\ chunks' = input
    /\ nonces' = [i \in 1..Len(input) |-> NonceAt(bufNonces, i)]
    /\ results' = PendingResults(Len(input))
    /\ order' = <<>>
    /\ shuffled' = FALSE
    /\ pc' = to
    /\ UNCHANGED <<inputVars, decArgs, file, encRc, rng, rpos, decVars, tamper, ffiVars, bufVars>>

EncryptParallelBegin ==
    \/ ParallelBegin("edp_probe", "edp_probe_work", bufChunks)
    \/ ParallelBegin("edp_fill", "edp_fill_work", bufChunks)

\* the chunk array the host passes to decrypt_data_parallel
HostCiphertexts ==
    [i \in 1..Len(bufCts) |->
        IF tamper.kind = "chunk" /\ tamper.pos = i
        THEN [bufCts[i] EXCEPT ![1] = Num(0)]
        ELSE bufCts[i]]

DecryptParallelBegin ==
    \/ ParallelBegin("ddp_probe", "ddp_probe_work", HostCiphertexts)
    \/ ParallelBegin("ddp_fill", "ddp_fill_work", HostCiphertexts)

\* one worker of encrypt_data_parallel
EncryptParallelWorker(i) ==
    /\ pc \in {"edp_probe_work", "edp_fill_work"}
    /\ i \in 1..Len(chunks)
    /\ i \notin Finished(order)
    /\ results' = [results EXCEPT ![i] =
                      [ok |-> TRUE, data |-> seal(derive_key(password), nonces[i], chunks[i])]]
    /\ order' = Append(order, i)
    /\ UNCHANGED <<inputVars, decArgs, pc, file, encRc, rng, rpos, chunks, nonces,
                   shuffled, decVars, tamper, ffiVars, bufVars>>

\* one worker of decrypt_data_parallel
DecryptParallelWorker(i) ==
    /\ pc \in {"ddp_probe_work", "ddp_fill_work"}
    /\ i \in 1..Len(chunks)
    /\ i \notin Finished(order)
    /\ results' = [results EXCEPT ![i] = open(derive_key(decPassword), nonces[i], chunks[i])]
    /\ order' = Append(order, i)
    /\ UNCHANGED <<inputVars, decArgs, pc, file, encRc, rng, rpos, chunks, nonces,
                   shuffled, decVars, tamper, ffiVars, bufVars>>

ParallelEnd ==
    /\ Finished(order) = 1..Len(chunks)
    /\ chunks' = <<>>
    /\ nonces' = <<>>
    /\ results' = <<>>
    /\ order' = <<>>
    /\ shuffled' = ~Ascending(order)

\* the join and the return of encrypt_data_parallel
EncryptParallelReturn ==
    /\ pc \in {"edp_probe_work", "edp_fill_work"}
    /\ ParallelEnd
    /\ LET r == ParallelReturn(Collect(results, order), pc = "edp_probe_work")
       IN IF pc = "edp_probe_work"
          THEN /\ encPar' = [encPar EXCEPT !.probe = r]
               /\ bufCts' = bufCts
               /\ pc' = "edp_fill"
          ELSE /\ encPar' = [encPar EXCEPT !.fill = r]
               /\ bufCts' = [i \in 1..Len(r.buf) |-> r.buf[i][1]]
               /\ pc' = "ddp_probe"
    /\ UNCHANGED <<inputVars, decArgs, file, encRc, rng, rpos, decVars, tamper, ffiVars,
                   bufNonces, bufChunks, bufCt, encData, decData, decPar>>

\* the join and the return of decrypt_data_parallel
DecryptParallelReturn ==
    /\ pc \in {"ddp_probe_work", "ddp_fill_work"}
    /\ ParallelEnd
    /\ LET r == ParallelReturn(Collect(results, order), pc = "ddp_probe_work")
       IN IF pc = "ddp_probe_work"
          THEN /\ decPar' = [decPar EXCEPT !.probe = r]
               /\ pc' = "ddp_fill"
          ELSE /\ decPar' = [decPar EXCEPT !.fill = r]
               /\ pc' = "done"
    /\ UNCHANGED <<inputVars, decArgs, file, encRc, rng, rpos, decVars, tamper, ffiVars,
                   bufNonces, bufChunks, bufCt, bufCts, encData, decData, encPar>>

---------------------------------------------------------------------------
(* The specification *)

\* sizes for which every hint and password is tried; the other sizes run
\* with one hint and one password
CrossSizes == {0, get_chunk_size(TRUE) + 1}
UsualHint == HintOf(2)
UsualPassword == <<112>>

\* what a run can meet: a path argument that is not UTF-8 in one of the calls,
\* an input that cannot be opened, an output that cannot be created
Faults == {"enc_input_path", "enc_output_path", "enc_open", "hint_path", "mem_path",
           "dec_input_path", "dec_output_path", "dec_create"}
FaultSize == get_chunk_size(TRUE) + 1

\* what one read call on the input returns at most: all that was asked for, or
\* one byte less than a mobile chunk; the latter for one plaintext
WholeRead == get_chunk_size(FALSE)
ShortRead == get_chunk_size(TRUE) - 1
ShortReadSize == 6 * get_chunk_size(TRUE)

\* encrypt_file, then the readers, with any arguments; a failing path or file
\* for one plaintext
InitFile ==
    /\ track = "file"
    /\ plain \in {PlainOf(n) : n \in PlainSizes}
    /\ password \in Passwords
    /\ hint \in Hints
    /\ encDev \in Devs
    /\ Len(plain) \notin CrossSizes => (hint = UsualHint /\ password = UsualPassword)
    /\ fault \in Faults \cup {"none"}
    /\ fault # "none" =>
          /\ Len(plain) = FaultSize
          /\ hint = UsualHint
          /\ password = UsualPassword
          /\ encDev = [is_mobile |-> TRUE, cpu_cores |-> 2]
    /\ readMax \in {WholeRead, ShortRead}
    /\ readMax # WholeRead =>
          /\ Len(plain) = ShortReadSize
          /\ encDev = [is_mobile |-> TRUE, cpu_cores |-> 2]
    /\ pc = "enc_start"
    /\ bufNonces = <<>>
    /\ bufChunks = <<>>

\* encrypt_file, then a byte of the container changed, its end cut off, or a
\* frame duplicated or two frames swapped, then the readers with the arguments
\* of the encryption: one size per mode
TamperSizes == {1, get_chunk_size(TRUE) + 1, get_parallel_batch_threshold(TRUE) + 1}
InitTamper ==
    /\ track = "tamper"
    /\ plain \in {PlainOf(n) : n \in TamperSizes}
    /\ password = UsualPassword
    /\ hint = UsualHint
    /\ encDev = [is_mobile |-> TRUE, cpu_cores |-> 2]
    /\ fault = "none"
    /\ readMax = WholeRead
    /\ pc = "enc_start"
    /\ bufNonces = <<>>
    /\ bufChunks = <<>>

\* the chunk arrays a host passes for a plaintext: none, or pieces of k bytes
HostChunks(data) == {<<>>} \cup {IF data = <<>> THEN <<data>> ELSE Chunks(data, k) : k \in 1..2}
\* the nonces it passes: all zero, or counting from 1
HostNonces(n) ==
    {Concat([i \in 1..n |-> [j \in 1..NONCE_SIZE |-> Num(0)]]),
     Concat([i \in 1..n |-> generate_nonce(i)])}

\* the raw-buffer calls
InitBuffer ==
    /\ track = "buffer"
    /\ plain \in {PlainOf(n) : n \in 0..MaxBufPlain}
    /\ password \in Passwords
    /\ hint = NoHint
    /\ encDev = [is_mobile |-> TRUE, cpu_cores |-> 2]
    /\ fault = "none"
    /\ readMax = WholeRead
    /\ pc = "ed_probe"
    /\ bufChunks \in HostChunks(plain)
    /\ bufNonces \in HostNonces(MaxBufPlain)

Init ==
    /\ InitFile \/ InitTamper \/ InitBuffer
    /\ decPassword = password
    /\ decDev = encDev
    /\ file = <<>>
    /\ encRc = <<>>
    /\ rng = 0
    /\ rpos = 0
    /\ chunks = <<>>
    /\ nonces = <<>>
    /\ results = <<>>
    /\ order = <<>>
    /\ shuffled = FALSE
    /\ outFile = OldOutput
    /\ rc = <<>>
    /\ decFx = NoFx
    /\ tamper = [kind |-> "none", pos |-> 0]
    /\ hintCalls = TwoCalls
    /\ memCalls = TwoCalls
    /\ bufCt = <<>>
    /\ bufCts = <<>>
    /\ encData = TwoCalls
    /\ decData = TwoCalls
    /\ encPar = TwoCalls
    /\ decPar = TwoCalls

Next ==
    \/ EncStart
    \/ EncSingle
    \/ EncReadAll
    \/ EncReadBatch
    \/ \E i \in 1..Len(chunks) : EncWorker(i)
    \/ EncCollectWrite
    \/ EncFlush
    \/ NoTamper
    \/ pc = "tamper" /\ \E p \in 1..Len(file) : \E b \in TamperValues(file[p]) : TamperByte(p, b)
    \/ pc = "tamper" /\ \E n \in 0..(Len(file) - 1) : Truncate(n)
    \/ pc = "tamper" /\ \E k \in 1..Len(plain) : DuplicateFrame(k)
    \/ pc = "tamper" /\ \E i, j \in 1..Len(plain) : SwapFrames(i, j)
    \/ GetHintProbe
    \/ GetHintFill
    \/ \E pw \in Passwords, dev \in Devs : ChooseDecryptArgs(pw, dev)
    \/ MemProbe
    \/ MemFill
    \/ DecHeader
    \/ DecDeriveKey
    \/ DecCreate
    \/ DecDetect
    \/ DecSingle
    \/ DecReadAll
    \/ DecReadBatch
    \/ \E i \in 1..Len(chunks) : DecWorker(i)
    \/ DecCollectWrite
    \/ DecFlush
    \/ EncryptDataProbe
    \/ EncryptDataFill
    \/ \E pw \in Passwords, bad \in 0..MaxBufPlain : BufChoose(pw, bad)
    \/ DecryptDataProbe
    \/ DecryptDataFill
    \/ EncryptParallelBegin
    \/ \E i \in 1..Len(chunks) : EncryptParallelWorker(i)
    \/ EncryptParallelReturn
    \/ DecryptParallelBegin
    \/ \E i \in 1..Len(chunks) : DecryptParallelWorker(i)
    \/ DecryptParallelReturn

Spec == Init /\ [][Next]_vars

\* the steps of the read, work and write loops of a running encrypt_file or
\* decrypt_file
LoopStep ==
    \/ EncReadBatch
    \/ \E i \in 1..Len(chunks) : EncWorker(i)
    \/ EncCollectWrite
    \/ DecReadBatch
    \/ \E i \in 1..Len(chunks) : DecWorker(i)
    \/ DecCollectWrite

\* where a call is inside one of those loops: there, and only there, a
\* LoopStep is enabled
LoopPcs == {"enc_batch", "enc_work", "dec_batch", "dec_work"}

\* the calling thread and the workers of the pool keep running: a loop that
\* can take a step takes one.  This is weak fairness of LoopStep, with
\* ENABLED <<LoopStep>>_vars written as the state predicate it is equal to
FairSpec == Spec /\ ([]<>(pc \notin LoopPcs) \/ []<><<LoopStep>>_vars)

---------------------------------------------------------------------------
(* Properties *)

Untampered == tamper.kind = "none"
\* every path argument is UTF-8 and every file can be opened or created
NoFault == fault = "none"
FileTrack == track \in {"file", "tamper"}
FileDone == FileTrack /\ pc = "done"
KeysDiffer == derive_key(decPassword) # derive_key(password)
IsPrefix(a, b) == Len(a) <= Len(b) /\ a = SubSeq(b, 1, Len(a))

EncPcs == {"enc_start", "enc_single", "enc_readall", "enc_batch", "enc_work", "enc_flush"}
DecPcs == {"dec_header", "dec_key", "dec_create", "dec_detect", "dec_single",
           "dec_readall", "dec_batch", "dec_work", "dec_flush"}

\* C1: decrypt_file with the password and the device flags of a successful
\* encrypt_file returns 0 and writes exactly the plaintext, in every size class.
C1_SameDeviceRoundTrip ==
    (FileDone /\ Untampered /\ NoFault /\ encRc = <<0>> /\ decPassword = password
              /\ decDev = encDev)
        => (rc = <<0>> /\ outFile = plain)

C1_Witness ==
    /\ FileDone /\ Untampered /\ decPassword = password /\ decDev = encDev
    /\ Len(plain) > EncThreshold
    /\ rc = <<0>> /\ outFile = plain

\* C2 (as claimed): decrypt_file with the password of the encryption and any
\* device flags returns 0 and writes exactly the plaintext.
C2_CrossDeviceRoundTrip ==
    (FileDone /\ Untampered /\ NoFault /\ encRc = <<0>> /\ decPassword = password)
        => (rc = <<0>> /\ outFile = plain)

\* C3 (as claimed): after any single byte of a valid container was changed,
\* decrypt_file with the correct password does not return 0.
C3_TamperDetected ==
    (FileDone /\ tamper.kind = "byte" /\ decPassword = password) => rc # <<0>>

\* the frames encrypt_file wrote for a multi-chunk plaintext: where the body
\* starts and where each frame ends, as offsets into the container
MultiChunk == Len(plain) > get_chunk_size(encDev.is_mobile)
OrigBodyStart == 15 + Min(Len(hint.bytes), 32)
\* the size of the pieces encrypt_file cut the plaintext into: chunk_size, or
\* in the streaming branch what one read returned
PieceSize ==
    IF Len(plain) > get_parallel_batch_threshold(encDev.is_mobile)
    THEN Min(get_chunk_size(encDev.is_mobile), readMax)
    ELSE get_chunk_size(encDev.is_mobile)
NumFrames == (Len(plain) + PieceSize - 1) \div PieceSize
FrameEnd(k) == OrigBodyStart + 32 * k + Min(k * PieceSize, Len(plain))
\* the container ends inside a frame, after its nonce: in the length field or
\* in the ciphertext
MidFrameCut ==
    /\ tamper.kind = "cut"
    /\ \E k \in 1..NumFrames :
          tamper.pos \in (FrameEnd(k - 1) + 12)..(FrameEnd(k) - 1)
LenPrefixTooLarge ==
    /\ tamper.kind = "byte"
    /\ \E k \in 1..NumFrames :
          /\ tamper.pos \in (FrameEnd(k - 1) + 13)..(FrameEnd(k - 1) + 16)
          /\ from_be_bytes(SubSeq(file, FrameEnd(k - 1) + 13, FrameEnd(k - 1) + 16), 0)
                > Len(file) - (FrameEnd(k - 1) + 16)

\* C4 (as claimed): a multi-chunk container that ends in the middle of a
\* frame, or in which a frame's length prefix is larger than the bytes that
\* remain, makes decrypt_file return an error.
C4_TruncationIsError ==
    (FileDone /\ MultiChunk /\ (MidFrameCut \/ LenPrefixTooLarge)) => rc # <<0>>

\* C5: with a password whose key differs from the key of the encryption,
\* decrypt_file, decrypt_file_to_memory, decrypt_data and decrypt_data_parallel
\* (given at least one chunk) return -2 and never 0.
C5_WrongPasswordRejected ==
    (KeysDiffer /\ NoFault) =>
        /\ rc \in {<<>>, <<-2>>}
        /\ \A c \in {memCalls.probe, memCalls.fill, decData.probe, decData.fill} :
              c.rc \in {<<>>, <<-2>>}
        /\ Len(bufChunks) > 0 => \A c \in {decPar.probe, decPar.fill} : c.rc \in {<<>>, <<-2>>}
        /\ (FileTrack /\ pc \in DecPcs \cup {"done"}) =>
              (memCalls.probe.rc = <<-2>> /\ memCalls.fill.rc = <<-2>>)
        /\ FileDone => rc = <<-2>>
        /\ (track = "buffer" /\ pc = "done") =>
              /\ decData.probe.rc = <<-2>> /\ decData.fill.rc = <<-2>>
              /\ Len(bufChunks) > 0 => (decPar.probe.rc = <<-2>> /\ decPar.fill.rc = <<-2>>)

C5_Witness ==
    /\ FileDone /\ KeysDiffer /\ Len(plain) > get_chunk_size(encDev.is_mobile)
    /\ rc = <<-2>> /\ memCalls.fill.rc = <<-2>>

\* the container of the first n chunks of the plaintext: the header, then for
\* each chunk in index order the frame of the nonce drawn for that index
ExpectedFrames(n) ==
    Concat([j \in 1..n |->
        LET nonce == generate_nonce(j - 1)
            chunk == Chunks(plain, PieceSize)[j]
        IN  nonce \o to_be_bytes(Len(chunk) + TAG_SIZE)
                  \o seal(derive_key(password), nonce, chunk)])

\* C6: whatever order the workers of a batch finish in, encrypt_file writes
\* the frames in chunk index order, each with the nonce of its index, and
\* decrypt_file writes the plaintexts in frame order.
C6_IndexOrdered ==
    /\ (FileTrack /\ MultiChunk /\ pc \in {"enc_batch", "enc_work", "enc_flush", "tamper"}) =>
          file = HeaderOf(hint) \o ExpectedFrames(rng - Len(chunks))
    /\ (FileTrack /\ Untampered /\ pc \in DecPcs /\ decFx.created) =>
          /\ IsPrefix(outFile, plain)
          /\ pc = "dec_flush" => outFile = plain

C6_Witness ==
    /\ FileTrack /\ Untampered /\ MultiChunk /\ shuffled
    /\ pc = "dec_batch" /\ Len(outFile) > get_chunk_size(encDev.is_mobile)
    /\ IsPrefix(outFile, plain)

\* C7: get_hint_from_file on an untampered container returns the first 32
\* bytes of the hint given to encrypt_file (nothing when there was none), and
\* reads no byte past the header and derives no key.
ExpectedHint == [i \in 1..Min(Len(hint.bytes), 32) |-> hint.bytes[i]]
HintAnswered(c) ==
    /\ c.rc = <<0>>
    /\ c.len = <<Len(ExpectedHint)>>
    /\ c.key = FALSE
    /\ c.read <= OrigBodyStart
C7_HintRoundTrip ==
    (FileTrack /\ Untampered /\ NoFault /\ encRc = <<0>>) =>
        /\ hintCalls.probe.rc # <<>> => HintAnswered(hintCalls.probe)
        /\ hintCalls.fill.rc # <<>> =>
              (HintAnswered(hintCalls.fill) /\ hintCalls.fill.buf = <<ExpectedHint>>)

C7_Witness ==
    /\ FileTrack /\ Untampered /\ Len(hint.bytes) > 32
    /\ hintCalls.fill.rc = <<0>> /\ hintCalls.fill.buf = <<ExpectedHint>>

\* C8: decrypt_data with the same password, on the output and the nonce of a
\* successful encrypt_data, returns 0 with exactly the plaintext; the encrypted
\* length is the plaintext length plus 16.
C8_BufferRoundTrip ==
    track = "buffer" =>
        /\ encData.fill.rc # <<>> =>
              (encData.fill.rc = <<0>> /\ encData.fill.len = <<Len(plain) + 16>>)
        /\ (decData.fill.rc # <<>> /\ decPassword = password) =>
              /\ decData.fill.rc = <<0>>
              /\ decData.fill.len = <<Len(plain)>>
              /\ decData.fill.buf = <<plain>>

C8_Witness ==
    /\ track = "buffer" /\ decPassword = password /\ Len(plain) > 0
    /\ decData.fill.rc = <<0>> /\ decData.fill.buf = <<plain>>

\* a call with a null output pointer against the call with a buffer, for the
\* functions with one output buffer
SameAsFilled(c) ==
    /\ c.probe.rc = <<0>> => c.probe.buf = <<>>
    /\ c.fill.rc # <<>> =>
          /\ c.fill.rc = c.probe.rc
          /\ c.fill.len = c.probe.len
          /\ c.fill.rc = <<0>> =>
                (c.probe.len # <<>> /\ Len(c.fill.buf[1]) = c.probe.len[1])
\* and for the functions with one output buffer for each chunk
SameAsFilledEach(c) ==
    /\ c.probe.rc = <<0>> => \A i \in 1..Len(c.probe.buf) : c.probe.buf[i] = <<>>
    /\ c.fill.rc # <<>> =>
          /\ c.fill.rc = c.probe.rc
          /\ c.fill.len = c.probe.len
          /\ c.fill.rc = <<0>> =>
                \A i \in 1..Len(bufChunks) :
                   (c.probe.len[i] # <<>> /\ Len(c.fill.buf[i][1]) = c.probe.len[i][1])

\* C9: a successful call with a null output pointer writes no output byte,
\* returns 0, and sets the length cell to the value that the call with a
\* buffer and the same inputs sets and fills; for the parallel functions this
\* holds for each chunk.
C9_TwoCallIdiom ==
    /\ SameAsFilled(hintCalls)
    /\ SameAsFilled(memCalls)
    /\ SameAsFilled(encData)
    /\ SameAsFilled(decData)
    /\ SameAsFilledEach(encPar)
    /\ SameAsFilledEach(decPar)

C9_Witness ==
    /\ FileTrack /\ Len(plain) > get_chunk_size(encDev.is_mobile)
    /\ memCalls.probe.rc = <<0>> /\ memCalls.probe.buf = <<>>
    /\ memCalls.fill.rc = <<0>> /\ memCalls.fill.buf = <<plain>>
    /\ memCalls.probe.len = <<Len(plain)>>

\* what decrypt_file rejects in the header of a container
BadMagic(f) == Len(f) < 10 \/ \E i \in 1..10 : f[i] # Num(<<75, 89, 82, 73, 69, 95, 76, 79, 67, 75>>[i])
BadVersion(f) == Len(f) < 14 \/ <<f[11].v, f[12].v, f[13].v, f[14].v>> # <<1, 0, 0, 0>>
ShortHint(f) == Len(f) < 15 \/ Len(f) < 15 + f[15].v
HeaderBad(f) == BadMagic(f) \/ BadVersion(f) \/ ShortHint(f)

\* C10: when the magic is wrong, the version is not 1 or the header is too
\* short, decrypt_file returns -2 having derived no key, built no cipher and
\* neither created nor truncated the output file.
C10_HeaderFailuresFirst ==
    (FileTrack /\ NoFault /\ pc \in DecPcs \cup {"done"} /\ HeaderBad(file)) =>
        /\ decFx = NoFx
        /\ outFile = OldOutput
        /\ pc \notin {"dec_key", "dec_create", "dec_detect", "dec_single", "dec_readall",
                      "dec_batch", "dec_work", "dec_flush"}
        /\ pc = "done" => rc = <<-2>>

C10_Witness ==
    /\ FileDone /\ tamper.kind = "byte" /\ tamper.pos \in 11..14
    /\ rc = <<-2>> /\ decFx = NoFx /\ outFile = OldOutput

\* C11 (as claimed): when the version field of the file is not 1, neither
\* decrypt_file nor decrypt_file_to_memory nor get_hint_from_file returns 0.
C11_VersionChecked ==
    (FileTrack /\ ~BadMagic(file) /\ BadVersion(file)) =>
        /\ hintCalls.probe.rc # <<0>>
        /\ hintCalls.fill.rc # <<0>>
        /\ memCalls.probe.rc # <<0>>
        /\ memCalls.fill.rc # <<0>>
        /\ rc # <<0>>

\* the body is read by the in-memory parallel branch of decrypt_file
DecInMemory ==
    /\ ReadHeader(file).ok
    /\ DecEncryptedSize >= 12
    /\ DecEncryptedSize - 12 > DecChunkSize + 16
    /\ DecEncryptedSize <= DecThreshold
BatchJoined == pc = "dec_work" /\ Finished(order) = 1..Len(chunks)
BatchFailed == \E i \in 1..Len(results) : ~results[i].ok

\* C12: when the open of any chunk of a batch fails, decrypt_file returns -2
\* and writes nothing of that batch, the chunks that opened included, and
\* nothing after it; in in-memory parallel mode no plaintext byte is written.
C12_AbortWithoutOutput ==
    /\ [][(BatchJoined /\ BatchFailed) =>
             (outFile' = outFile /\ rc' = <<-2>> /\ pc' = "done")]_vars
    /\ [][pc = "done" => outFile' = outFile]_vars
    /\ []((FileDone /\ rc = <<-2>> /\ decFx.created /\ DecInMemory) => outFile = <<>>)

C12_Witness ==
    /\ BatchJoined /\ BatchFailed
    /\ results[1].ok
    /\ Len(outFile) > 0

RetCodes == {<<0>>, <<-1>>, <<-2>>}
AllRc == {encRc, rc, hintCalls.probe.rc, hintCalls.fill.rc, memCalls.probe.rc, memCalls.fill.rc}
\* a call that returned, returned -1 exactly when one of its paths is not UTF-8
MinusOneIffPath(r, paths) == r # <<>> => (r = <<-1>> <=> fault \in paths)

\* C13: encrypt_file, decrypt_file, decrypt_file_to_memory and
\* get_hint_from_file return only 0, -1 or -2: -1 exactly for a path argument
\* that is not UTF-8, 0 exactly when the operation ran to its end, and -2 for
\* a wrong password, a changed ciphertext, a bad magic and an I/O failure alike.
C13_ReturnCodes ==
    /\ [](FileTrack => AllRc \subseteq RetCodes \cup {<<>>})
    /\ [](FileTrack =>
            /\ MinusOneIffPath(encRc, {"enc_input_path", "enc_output_path"})
            /\ MinusOneIffPath(rc, {"dec_input_path", "dec_output_path"})
            /\ MinusOneIffPath(hintCalls.probe.rc, {"hint_path"})
            /\ MinusOneIffPath(hintCalls.fill.rc, {"hint_path"})
            /\ MinusOneIffPath(memCalls.probe.rc, {"mem_path"})
            /\ MinusOneIffPath(memCalls.fill.rc, {"mem_path"}))
    /\ [][encRc' # encRc => (encRc' = <<0>> <=> pc = "enc_flush")]_vars
    /\ [][rc' # rc => (rc' = <<0>> <=> pc = "dec_flush")]_vars
    /\ []((FileDone /\ fault \notin {"dec_input_path", "dec_output_path"}
             /\ (KeysDiffer \/ BadMagic(file) \/ fault = "dec_create"
                   \/ (tamper.kind = "byte" /\ tamper.pos > Len(file) - 16)))
            => rc = <<-2>>)
    /\ [](fault = "enc_open" /\ encRc # <<>> => encRc = <<-2>>)

C13_Witness ==
    /\ FileDone /\ KeysDiffer /\ fault = "dec_output_path"
    /\ rc = <<-1>> /\ memCalls.fill.rc = <<-2>> /\ hintCalls.fill.rc = <<0>>

\* frame i of the container encrypt_file wrote: its nonce and its sealed chunk
FrameNonce(i) == SubSeq(file, FrameEnd(i - 1) + 1, FrameEnd(i - 1) + 12)
FrameSealed(i) == SubSeq(file, FrameEnd(i - 1) + 17, FrameEnd(i))
PairwiseDistinct(ns) == \A i, j \in 1..Len(ns) : i # j => ns[i] # ns[j]

\* C14: in a multi-chunk file every frame carries the nonce of its own
\* generate_nonce call, made before the workers start; no nonce is in two
\* frames, within a batch or across batches; and the nonce of frame i is the
\* one chunk i was sealed with.
C14_FreshPairedNonces ==
    /\ (FileTrack /\ pc = "enc_work") =>
          /\ Len(nonces) = Len(chunks)
          /\ PairwiseDistinct(nonces)
          /\ \A k \in 1..Len(nonces) :
                /\ nonces[k] = generate_nonce(rng - Len(nonces) + k - 1)
                /\ \A i \in 1..(rng - Len(nonces)) : FrameNonce(i) # nonces[k]
    /\ (FileTrack /\ MultiChunk /\ pc = "tamper" /\ encRc = <<0>>) =>
          /\ rng = NumFrames
          /\ PairwiseDistinct([i \in 1..NumFrames |-> FrameNonce(i)])
          /\ \A i \in 1..NumFrames :
                FrameSealed(i) = seal(derive_key(password), FrameNonce(i),
                                      Chunks(plain, PieceSize)[i])

C14_Witness ==
    /\ FileTrack /\ pc = "tamper" /\ encRc = <<0>>
    /\ Len(plain) > get_parallel_batch_threshold(encDev.is_mobile)
    /\ NumFrames > 4
    /\ PairwiseDistinct([i \in 1..NumFrames |-> FrameNonce(i)])

\* C15: every file of a successful encrypt_file starts with the 10-byte magic,
\* then version 1 little-endian, then a hint length byte of at most 32 that is
\* the number of hint bytes after it; the body starts at offset 15 + hint_len;
\* the header readers of decrypt_file and get_hint_from_file accept the file.
C15_WellFormedContainer ==
    (FileTrack /\ pc = "tamper" /\ encRc = <<0>>) =>
        /\ Len(file) >= 15
        /\ SubSeq(file, 1, 10) = Bytes(<<75, 89, 82, 73, 69, 95, 76, 79, 67, 75>>)
        /\ SubSeq(file, 11, 14) = Bytes(<<1, 0, 0, 0>>)
        /\ file[15].v \in 0..32
        /\ file[15].v = Min(Len(hint.bytes), 32)
        /\ SubSeq(file, 16, 15 + file[15].v) = ExpectedHint
        /\ Len(file) - (15 + file[15].v) =
              IF MultiChunk THEN 32 * NumFrames + Len(plain) ELSE 12 + Len(plain) + 16
        /\ ReadHeader(file).ok
        /\ ReadHeader(file).start = 15 + file[15].v
        /\ get_hint_from_file_internal(file).ok

C15_Witness ==
    /\ FileTrack /\ pc = "tamper" /\ encRc = <<0>>
    /\ Len(hint.bytes) > 32
    /\ file[15].v = 32
    /\ ReadHeader(file).ok

\* the branch of encrypt_file_internal a plaintext size belongs to
ModeOfSize(size, is_mobile) ==
    IF size <= get_chunk_size(is_mobile) THEN "enc_single"
    ELSE IF size <= get_parallel_batch_threshold(is_mobile) THEN "enc_readall"
    ELSE "enc_batch"
Body == SubSeq(file, OrigBodyStart + 1, Len(file))

\* C16: encrypt_file writes a single-shot body (nonce and one sealed blob, no
\* length prefix) exactly when the plaintext has at most chunk_size bytes,
\* sizes 0 and chunk_size included; it takes the in-memory parallel branch
\* from chunk_size + 1 to parallel_threshold and the streaming branch above.
C16_EncryptModeSelection ==
    /\ [][(pc = "enc_start" /\ pc' # "enc_failed") =>
             pc' = ModeOfSize(Len(plain), encDev.is_mobile)]_vars
    /\ [](pc \in {"enc_single", "enc_readall", "enc_batch"} =>
             pc = ModeOfSize(Len(plain), encDev.is_mobile))
    /\ []((FileTrack /\ pc = "tamper" /\ encRc = <<0>>) =>
             IF Len(plain) <= get_chunk_size(encDev.is_mobile)
             THEN /\ Len(Body) = 12 + Len(plain) + 16
                  /\ SubSeq(Body, 13, Len(Body)) =
                        seal(derive_key(password), SubSeq(Body, 1, 12), plain)
             ELSE /\ Len(Body) = 32 * NumFrames + Len(plain)
                  /\ SubSeq(Body, 13, 16) =
                        to_be_bytes(PieceSize + 16))

C16_Witness ==
    /\ FileTrack /\ pc = "tamper" /\ encRc = <<0>>
    /\ Len(plain) = get_chunk_size(encDev.is_mobile)
    /\ Len(Body) = 12 + Len(plain) + 16

\* a failed call left its output buffer and its length cell alone
NothingWritten(c) == c.rc[1] < 0 /\ c.len = <<>> /\ c.buf = <<>>
NothingWrittenEach(c) ==
    /\ c.rc[1] < 0
    /\ Len(c.len) = Len(bufChunks)
    /\ \A i \in 1..Len(c.len) : c.len[i] = <<>> /\ c.buf[i] = <<>>

\* C17: when the tag check fails, decrypt_data returns a negative code and
\* writes neither the output buffer nor the length cell; when it fails for one
\* chunk of decrypt_data_parallel, the call returns a negative code and writes
\* no buffer and no length cell of any chunk, the authentic ones included.
C17_NoPlaintextOnAuthFailure ==
    track = "buffer" =>
        /\ \A c \in {decData.probe, decData.fill} :
              /\ c.rc \notin {<<>>, <<0>>} => NothingWritten(c)
              /\ (c.rc # <<>> /\ KeysDiffer) => c.rc = <<-2>>
        /\ \A c \in {decPar.probe, decPar.fill} :
              /\ c.rc \notin {<<>>, <<0>>} => NothingWrittenEach(c)
              /\ (c.rc # <<>> /\ Len(bufChunks) > 0 /\ (KeysDiffer \/ tamper.kind = "chunk"))
                    => c.rc = <<-2>>

C17_Witness ==
    /\ track = "buffer" /\ ~KeysDiffer
    /\ tamper.kind = "chunk" /\ tamper.pos = 2
    /\ Len(bufChunks) > 2
    /\ decPar.fill.rc = <<-2>>
    /\ NothingWrittenEach(decPar.fill)

\* the 12 nonce bytes of chunk i (from 1) in the array the host passed
HostNonce(i) == [j \in 1..12 |-> bufNonces[12 * (i - 1) + j]]

\* C18: for the same chunks, password and nonces, encrypt_data_parallel gives
\* the same outputs on every run and under every order of its workers:
\* output i is the seal of chunk i under the key of the password and nonce
\* bytes [12i, 12i + 12), which is what encrypt_data returns for them.
C18_ParallelEncryptDeterministic ==
    track = "buffer" =>
        /\ encPar.probe.rc # <<>> =>
              /\ encPar.probe.rc = <<0>>
              /\ encPar.probe.len = [i \in 1..Len(bufChunks) |-> <<Len(bufChunks[i]) + 16>>]
        /\ encPar.fill.rc # <<>> =>
              /\ encPar.fill.rc = <<0>>
              /\ Len(encPar.fill.buf) = Len(bufChunks)
              /\ encPar.fill.len = encPar.probe.len
              /\ \A i \in 1..Len(bufChunks) :
                    /\ encPar.fill.buf[i] =
                          <<seal(derive_key(password), HostNonce(i), bufChunks[i])>>
                    /\ encPar.fill.buf[i] =
                          encrypt_data(bufChunks[i], password, HostNonce(i), FALSE).buf

C18_Witness ==
    /\ track = "buffer" /\ pc = "ddp_probe" /\ shuffled
    /\ Len(bufChunks) > 2
    /\ bufNonces[1].v # bufNonces[13].v
    /\ encPar.fill.rc = <<0>>
    /\ encPar.fill.buf[3] = <<seal(derive_key(password), HostNonce(3), bufChunks[3])>>

\* the streaming batched branch of encrypt_file and of decrypt_file
EncStreaming == FileTrack /\ Len(plain) > get_parallel_batch_threshold(encDev.is_mobile)
DecStreaming ==
    /\ FileTrack /\ ReadHeader(file).ok
    /\ DecEncryptedSize - 12 > DecChunkSize + 16
    /\ DecEncryptedSize > DecThreshold
\* bytes of frames that hold n plaintext bytes in pieces of the writer's size
FramedLen(n) == n + 32 * ((n + PieceSize - 1) \div PieceSize)
AllJoined == Finished(order) = 1..Len(chunks)

\* C19: in streaming mode at most batch_size chunks are held or in flight,
\* the I/O thread does nothing while a worker of the batch still runs, and
\* nothing of the next batch is read before every result of the batch is
\* written.
C19_BatchBarrier ==
    /\ []((EncStreaming /\ pc \in {"enc_batch", "enc_work"}) =>
            /\ Len(chunks) <= get_parallel_batch_size(encDev.cpu_cores, encDev.is_mobile)
            /\ Len(order) <= Len(chunks))
    /\ []((DecStreaming /\ pc \in {"dec_batch", "dec_work"}) =>
            /\ Len(chunks) <= get_parallel_batch_size(decDev.cpu_cores, decDev.is_mobile)
            /\ Len(order) <= Len(chunks))
    /\ [][(pc \in {"enc_work", "dec_work"} /\ ~AllJoined) =>
             (pc' = pc /\ file' = file /\ outFile' = outFile /\ rpos' = rpos
                /\ chunks' = chunks /\ nonces' = nonces)]_vars
    /\ []((EncStreaming /\ pc = "enc_batch") =>
            /\ chunks = <<>> /\ results = <<>>
            /\ Len(file) = OrigBodyStart + FramedLen(rpos))
    /\ []((DecStreaming /\ Untampered /\ MultiChunk /\ pc = "dec_batch") =>
            /\ chunks = <<>> /\ results = <<>>
            /\ rpos - DecStart = FramedLen(Len(outFile)))
    /\ [][(pc \in {"enc_batch", "dec_batch"} /\ rpos' # rpos) => chunks = <<>>]_vars

C19_Witness ==
    /\ EncStreaming /\ pc = "enc_work"
    /\ rpos > Len(Concat(chunks))
    /\ Len(chunks) = get_parallel_batch_size(encDev.cpu_cores, encDev.is_mobile)
    /\ Len(order) > 0 /\ ~AllJoined

SameClass == FileTrack /\ Untampered /\ encRc = <<0>> /\ decDev.is_mobile = encDev.is_mobile

\* C20: with the same is_mobile flag as encrypt_file, decrypt_file takes the
\* body as single-shot (body size - 12 <= chunk_size + 16) exactly when
\* encrypt_file wrote a single-shot body: no file of a plaintext of at most
\* chunk_size bytes is parsed as frames, none of a longer one as single-shot;
\* decrypt_file_to_memory classifies the same way.
C20_ModeInferenceMatches ==
    /\ []((SameClass /\ pc \notin EncPcs) =>
            ((Len(file) - OrigBodyStart) - 12 <= get_chunk_size(decDev.is_mobile) + 16
                <=> Len(plain) <= get_chunk_size(encDev.is_mobile)))
    /\ [][(SameClass /\ pc = "dec_detect") =>
             /\ pc' \in {"dec_single", "dec_readall", "dec_batch"}
             /\ pc' = "dec_single" <=> Len(plain) <= get_chunk_size(encDev.is_mobile)]_vars
    /\ []((SameClass /\ pc = "dec_single") => ~MultiChunk)
    /\ []((SameClass /\ pc \in {"dec_readall", "dec_batch"}) => MultiChunk)
    /\ []((SameClass /\ NoFault /\ ~KeysDiffer /\ memCalls.fill.rc # <<>>) =>
            (memCalls.fill.rc = <<0>> /\ memCalls.fill.buf = <<plain>>))

C20_Witness ==
    /\ SameClass /\ pc = "dec_single" /\ decDev.cpu_cores # encDev.cpu_cores
    /\ Len(plain) = get_chunk_size(encDev.is_mobile)

\* the frames in the body of the container, as the length fields delimit them
WrittenFrames == ReadFramesMem(file, OrigBodyStart, 0).frames
\* ceil(S / chunk_size) for the plaintext and the writer's chunk_size
CeilChunks ==
    (Len(plain) + get_chunk_size(encDev.is_mobile) - 1) \div get_chunk_size(encDev.is_mobile)

\* C21 (as claimed): a multi-chunk encrypt_file of a plaintext of S bytes
\* writes exactly ceil(S / chunk_size) frames; every frame but the last holds
\* chunk_size plaintext bytes and the last holds the rest; each length field
\* is the frame's plaintext length + 16; no frame is empty; in the in-memory
\* branch and in the streaming branch alike.
C21_DeterministicFraming ==
    (FileTrack /\ MultiChunk /\ pc = "tamper" /\ encRc = <<0>>) =>
        /\ Len(WrittenFrames) = CeilChunks
        /\ Body = Concat([i \in 1..CeilChunks |->
                            Frame(WrittenFrames[i].nonce, WrittenFrames[i].chunk)])
        /\ \A i \in 1..CeilChunks :
              /\ Len(WrittenFrames[i].chunk) =
                    Len(Chunks(plain, get_chunk_size(encDev.is_mobile))[i]) + TAG_SIZE
              /\ Len(WrittenFrames[i].chunk) > TAG_SIZE
              /\ i < CeilChunks =>
                    Len(WrittenFrames[i].chunk) = get_chunk_size(encDev.is_mobile) + TAG_SIZE

\* the streaming branch ran on a number of chunks, or of frames, that is a
\* multiple of batch_size
EncWholeBatches == EncStreaming /\ NumFrames % EncBatchSize = 0
DecWholeBatches ==
    DecStreaming /\ Untampered /\ ~KeysDiffer /\ NoFault /\ NumFrames % DecBatchSize = 0

\* C22: the streaming loops of encrypt_file and decrypt_file terminate: every
\* pass that goes on to the workers has moved the read position forward, and
\* a running loop reaches the flush or the error return.  When the number of
\* chunks or frames is a multiple of batch_size, the pass after the last
\* batch reads nothing, changes nothing and ends the loop, and the call
\* returns 0 with the complete output.
C22_StreamingTerminates ==
    /\ [][(pc = "enc_batch" /\ pc' = "enc_work") =>
             (rpos < rpos' /\ rpos' <= Len(plain))]_vars
    /\ [][(pc = "dec_batch" /\ pc' = "dec_work") =>
             (rpos < rpos' /\ rpos' <= Len(file))]_vars
    /\ (pc = "enc_batch") ~> (pc = "enc_flush")
    /\ (pc = "dec_batch") ~> (pc \in {"dec_flush", "done"})
    /\ [][(EncWholeBatches /\ pc = "enc_batch" /\ rpos = Len(plain)) =>
             (pc' = "enc_flush" /\ file' = file /\ chunks' = <<>>)]_vars
    /\ []((EncWholeBatches /\ pc = "enc_flush") =>
             file = HeaderOf(hint) \o ExpectedFrames(NumFrames))
    /\ [][(EncWholeBatches /\ pc = "enc_flush") => (encRc' = <<0>> /\ file' = file)]_vars
    /\ [][(DecWholeBatches /\ pc = "dec_batch" /\ rpos = Len(file)) =>
             (pc' = "dec_flush" /\ outFile' = outFile /\ chunks' = <<>>)]_vars
    /\ []((DecWholeBatches /\ pc \in {"dec_flush", "done"}) => outFile = plain)
    /\ []((DecWholeBatches /\ pc = "done") => rc = <<0>>)

C22_Witness ==
    /\ EncWholeBatches /\ DecWholeBatches
    /\ NumFrames >= 2 * DecBatchSize
    /\ pc = "dec_flush" /\ rpos = Len(file) /\ chunks = <<>>
    /\ outFile = plain

\* C23 (as claimed): on the same file, with the same password and device
\* flags, decrypt_file and decrypt_file_to_memory either both fail, or both
\* return 0 and the bytes in the output file are the bytes returned in memory.
C23_DecryptFileAgreesWithMemory ==
    (FileDone /\ NoFault) =>
        /\ rc = <<0>> <=> memCalls.fill.rc = <<0>>
        /\ rc = <<0>> => memCalls.fill.buf = <<outFile>>

\* whole frames were taken off the end of a multi-chunk container, at least
\* one frame left
TrailingFramesRemoved ==
    tamper.kind = "cut" /\ \E k \in 1..(NumFrames - 1) : tamper.pos = FrameEnd(k)
FramesRearranged == tamper.kind \in {"dup", "swap"}

\* C24 (as claimed): with the correct password decrypt_file returns 0 for a
\* multi-chunk container only if it read exactly the frames encrypt_file
\* wrote, so that the output is the plaintext; a container with whole trailing
\* frames removed, a frame duplicated or two frames swapped is rejected.
C24_WholeStreamIntegrity ==
    (FileDone /\ MultiChunk /\ NoFault /\ encRc = <<0>> /\ decPassword = password) =>
        /\ rc = <<0>> => outFile = plain
        /\ (TrailingFramesRemoved \/ FramesRearranged) => rc # <<0>>

====
